---- MODULE Spec2Model ----
(***************************************************************************)
(* trx: the filtering-aware tree builder (Dir::from), the ignore-file      *)
(* cascade (VcsIgnore) and the tree mutator (Dir::prune), src/src/lib.rs.  *)
(*                                                                         *)
(* Strings are sequences of one-character strings, so that PathBuf         *)
(* operations and glob matching are computed character by character.       *)
(* File names are drawn from an alphabet without whitespace, upper-case    *)
(* letters or bracket classes.                                             *)
(***************************************************************************)
EXTENDS Integers, Sequences, FiniteSets, TLC

VARIABLES fs, cfg, pc, stack, calls, tree, orig, pruned

vars == <<fs, cfg, pc, stack, calls, tree, orig, pruned>>

(***************************************************************************)
(* Bounds                                                                  *)
(***************************************************************************)
\* largest n of max_depth = Some(n) that is tried
MaxDepthOpt == 2
\* depth and width of the trees handed to prune on their own
MaxTreeDepth == 2
MaxTreeWidth == 2
\* symbolic links the system follows while it resolves one path before it
\* gives up with ELOOP (40 on Linux)
MaxSymlinks == 2

\* Option<usize>::None of SearchOpts.max_depth
None == -1
\* Option<Dir>::None
NoTree == [path |-> <<>>, ftype |-> "None", target |-> <<>>, contents |-> <<>>]

(***************************************************************************)
(* std::path                                                               *)
(***************************************************************************)
SEP == "/"

RECURSIVE LastSep(_, _)
\* index of the last separator of p at or before i, 0 when there is none
LastSep(p, i) ==
    IF i = 0 THEN 0
    ELSE IF p[i] = SEP THEN i ELSE LastSep(p, i - 1)

\* the final component of the path as text
LastComp(p) == SubSeq(p, LastSep(p, Len(p)) + 1, Len(p))

\* Path::file_name: None (<<>>) when the path ends in "." or ".."
FileName(p) ==
    LET c == LastComp(p)
    IN  IF c = <<".">> \/ c = <<".", ".">> THEN <<>> ELSE c

\* Path::parent of a path that has a file name
Parent(p) ==
    LET i == LastSep(p, Len(p))
    IN  IF i = 0 THEN <<>> ELSE SubSeq(p, 1, i - 1)

\* PathBuf::push
Push(p, s) ==
    IF s # <<>> /\ s[1] = SEP THEN s
    ELSE IF p = <<>> THEN s
    ELSE IF p[Len(p)] = SEP THEN p \o s
    ELSE p \o <<SEP>> \o s

\* PathBuf::set_file_name: pop the file name when there is one, then push
SetFileName(p, name) ==
    IF FileName(p) # <<>> THEN Push(Parent(p), name) ELSE Push(p, name)

RECURSIVE Components(_)
\* Path::components, as a sequence of component texts
Components(p) ==
    IF p = <<>> THEN <<>>
    ELSE LET i == LastSep(p, Len(p))
             c == SubSeq(p, i + 1, Len(p))
             rest == IF i = 0 THEN <<>> ELSE Components(SubSeq(p, 1, i - 1))
         IN  IF c = <<>> THEN rest ELSE Append(rest, c)

\* Path::starts_with: component-wise prefix
StartsWith(p, base) ==
    LET cp == Components(p)
        cb == Components(base)
    IN  /\ Len(cb) <= Len(cp)
        /\ SubSeq(cp, 1, Len(cb)) = cb

(***************************************************************************)
(* glob::Pattern                                                           *)
(***************************************************************************)
RECURSIVE PatternNew(_, _)
\* Pattern::new: the tokens of the pattern text s from index i on.  A "**/"
\* that starts a component is one AnyRecursiveSequence token, "*" is
\* AnySequence, "?" is AnyChar, everything else a literal character.
PatternNew(s, i) ==
    IF i > Len(s) THEN <<>>
    ELSE IF /\ s[i] = "*"
            /\ i + 2 <= Len(s)
            /\ s[i + 1] = "*"
            /\ s[i + 2] = SEP
            /\ (i = 1 \/ s[i - 1] = SEP)
         THEN <<"**/">> \o PatternNew(s, i + 3)
         ELSE <<s[i]>> \o PatternNew(s, i + 1)

RECURSIVE MatchesFrom(_, _, _, _)
\* Pattern::matches_from with require_literal_separator = false and
\* require_literal_leading_dot = false (the MatchOptions of Dir::from)
MatchesFrom(toks, ti, file, fi) ==
    IF ti > Len(toks) THEN fi > Len(file)
    ELSE LET t == toks[ti]
         IN  IF t = "*"
             THEN \E k \in fi..(Len(file) + 1) : MatchesFrom(toks, ti + 1, file, k)
             ELSE IF t = "**/"
             THEN \/ MatchesFrom(toks, ti + 1, file, fi)
                  \/ \E k \in fi..Len(file) :
                        /\ file[k] = SEP
                        /\ MatchesFrom(toks, ti + 1, file, k + 1)
             ELSE IF t = "?"
             THEN fi <= Len(file) /\ MatchesFrom(toks, ti + 1, file, fi + 1)
             ELSE /\ fi <= Len(file)
                  /\ file[fi] = t
                  /\ MatchesFrom(toks, ti + 1, file, fi + 1)

\* Pattern::matches_path_with(obj, &match_opts)
Matches(pat, obj) == MatchesFrom(pat, 1, obj, 1)

\* some pattern of the list matches
AnyMatch(pats, obj) == \E i \in 1..Len(pats) : Matches(pats[i], obj)

(***************************************************************************)
(* The file system that is scanned.  An entry has a name, a kind ("dir",   *)
(* "file", "exe" for a file with an execute bit, "link"), for a directory  *)
(* the listing read_dir yields and whether it may be listed, for an        *)
(* ignore file its lines, for a link the raw target, the entry the link    *)
(* resolves to ("noent" when it dangles) and what canonicalize makes of    *)
(* the raw target from the working directory (<<>> when it fails).         *)
(***************************************************************************)
Ent(name, kind, kids, lines, target, to, canon, readable) ==
    [name |-> name, kind |-> kind, kids |-> kids, lines |-> lines,
     target |-> target, to |-> to, canon |-> canon, readable |-> readable]

FileE(name) == Ent(name, "file", <<>>, <<>>, <<>>, "noent", <<>>, TRUE)
ExeE(name) == Ent(name, "exe", <<>>, <<>>, <<>>, "noent", <<>>, TRUE)
DirE(name, kids) == Ent(name, "dir", kids, <<>>, <<>>, "noent", <<>>, TRUE)
LinkE(name, target, to, canon) == Ent(name, "link", <<>>, <<>>, target, to, canon, TRUE)

GITIGNORE == <<".", "g", "i", "t", "i", "g", "n", "o", "r", "e">>
IgnE(lines) == Ent(GITIGNORE, "file", <<>>, lines, <<>>, "noent", <<>>, TRUE)

StarLog == <<"*", ".", "l", "o", "g">>
BangKeepLog == <<"!", "k", "e", "e", "p", ".", "l", "o", "g">>
BangBLog == <<"!", "b", ".", "l", "o", "g">>

\* root{.gitignore, a.log, keep.log, .x, d{a.txt*, b.log, e{c.txt}}, b{}}
BaseEnt(rootname) ==
    [id \in {"root", "gi", "alog", "keep", "dotx", "d", "dgi", "atxt", "blog",
             "e", "ctxt", "b", "l", "rr", "rl", "up"} |->
        CASE id = "root" -> DirE(rootname, <<"gi", "alog", "keep", "dotx", "d", "b">>)
          [] id = "gi"   -> IgnE(<<StarLog, BangKeepLog>>)
          [] id = "alog" -> FileE(<<"a", ".", "l", "o", "g">>)
          [] id = "keep" -> FileE(<<"k", "e", "e", "p", ".", "l", "o", "g">>)
          [] id = "dotx" -> FileE(<<".", "x">>)
          [] id = "d"    -> DirE(<<"d">>, <<"atxt", "blog", "e">>)
          [] id = "dgi"  -> IgnE(<<BangBLog>>)
          [] id = "atxt" -> ExeE(<<"a", ".", "t", "x", "t">>)
          [] id = "blog" -> FileE(<<"b", ".", "l", "o", "g">>)
          [] id = "e"    -> DirE(<<"e">>, <<"ctxt">>)
          [] id = "ctxt" -> FileE(<<"c", ".", "t", "x", "t">>)
          [] id = "b"    -> DirE(<<"b">>, <<>>)
          [] id = "l"    -> LinkE(<<"l">>, <<"d">>, "d", <<>>)
          [] id = "rr"   -> DirE(<<"r">>, <<"rl">>)
          [] id = "rl"   -> DirE(<<"l">>, <<>>)
          [] id = "up"   -> LinkE(<<"u", "p">>, <<".", ".">>, "root", <<"/">>)]

RootKidsWithLink == <<"gi", "alog", "keep", "dotx", "d", "b", "l">>

FsBase == [rootpath |-> <<"r">>, ent |-> BaseEnt(<<"r">>)]

\* scanning a directory whose own name starts with a dot
FsHiddenRoot == [rootpath |-> <<".", "h">>, ent |-> BaseEnt(<<".", "h">>)]

\* scanning "." (the default of the command line)
FsDotRoot == [rootpath |-> <<".">>, ent |-> BaseEnt(<<".">>)]

\* the two rules of the root ignore file in the other order
FsRulesReversed ==
    [FsBase EXCEPT !.ent["gi"] = IgnE(<<BangKeepLog, StarLog>>)]

\* comment, anchored, escaped and padded lines in the root ignore file
FsRuleSyntax ==
    [FsBase EXCEPT !.ent["gi"] =
        IgnE(<< <<"#", "d">>, <<"/", "b">>, <<"\\", "!", "x">>,
                <<" ", "/", "!", "a", ".", "l", "o", "g", " ">> >>)]

\* d has an ignore file of its own that re-includes b.log; d/e holds c.log
FsNestedReinclude ==
    [FsBase EXCEPT !.ent["d"] = DirE(<<"d">>, <<"dgi", "atxt", "blog", "e">>),
                   !.ent["ctxt"] = FileE(<<"c", ".", "l", "o", "g">>)]

\* d has an ignore file of its own that excludes its text files
FsNestedExclude ==
    [FsBase EXCEPT !.ent["d"] = DirE(<<"d">>, <<"dgi", "atxt", "blog", "e">>),
                   !.ent["dgi"] = IgnE(<< <<"*", ".", "t", "x", "t">> >>)]

\* r/l -> d, a link to a directory
FsDirLink ==
    [FsBase EXCEPT !.ent["root"] = DirE(<<"r">>, RootKidsWithLink)]

\* r/l -> keep.log, a link to a file
FsFileLink ==
    [FsBase EXCEPT !.ent["root"] = DirE(<<"r">>, RootKidsWithLink),
                   !.ent["l"] = LinkE(<<"l">>, <<"k", "e", "e", "p", ".", "l", "o", "g">>,
                                      "keep", <<>>)]

\* r/l -> gone, a dangling link
FsDanglingLink ==
    [FsBase EXCEPT !.ent["root"] = DirE(<<"r">>, RootKidsWithLink),
                   !.ent["l"] = LinkE(<<"l">>, <<"g", "o", "n", "e">>, "noent", <<>>)]

\* r/l -> r/l/../../d: from the link's directory this is r/r/l/../../d = r/d,
\* from the working directory it does not resolve, so the raw target is
\* compared and it starts with the link's own path
FsSelfPrefixLink ==
    [FsBase EXCEPT !.ent["root"] = DirE(<<"r">>, <<"d", "l", "rr">>),
                   !.ent["l"] = LinkE(<<"l">>,
                        <<"r", "/", "l", "/", ".", ".", "/", ".", ".", "/", "d">>,
                        "d", <<>>)]

\* r/b cannot be listed (no read permission)
FsUnreadableDir ==
    [FsBase EXCEPT !.ent["b"] =
        Ent(<<"b">>, "dir", <<>>, <<>>, <<>>, "noent", <<>>, FALSE)]

\* r/d/up -> .., a link to its own grandparent r: r{keep.log, d{a.txt*, up}}
FsCycle ==
    [FsBase EXCEPT !.ent["root"] = DirE(<<"r">>, <<"keep", "d">>),
                   !.ent["d"] = DirE(<<"d">>, <<"atxt", "up">>)]

FileSystems ==
    {FsBase, FsHiddenRoot, FsDotRoot, FsRulesReversed, FsRuleSyntax,
     FsNestedReinclude, FsNestedExclude, FsDirLink, FsFileLink,
     FsDanglingLink, FsSelfPrefixLink, FsUnreadableDir, FsCycle}

\* the entry a path names once links are followed (stat rather than lstat)
Resolve(id) ==
    IF id = "noent" THEN "noent"
    ELSE IF fs.ent[id].kind = "link" THEN fs.ent[id].to ELSE id

\* Path::is_dir: follows links, false on any error
IsDir(id) == Resolve(id) # "noent" /\ fs.ent[Resolve(id)].kind = "dir"

(***************************************************************************)
(* VcsIgnore                                                               *)
(***************************************************************************)
RECURSIVE TrimStart(_)
TrimStart(s) == IF s # <<>> /\ s[1] = " " THEN TrimStart(Tail(s)) ELSE s

RECURSIVE TrimEnd(_)
TrimEnd(s) ==
    IF s # <<>> /\ s[Len(s)] = " " THEN TrimEnd(SubSeq(s, 1, Len(s) - 1)) ELSE s

\* str::trim
Trim(s) == TrimEnd(TrimStart(s))

\* str::starts_with(char)
StartsWithChar(s, c) == s # <<>> /\ s[1] = c

\* VcsIgnore::glob2pat: the pattern text is the directory joined with s
glob2pat(dir, s) == PatternNew(Push(dir, s), 1)

RECURSIVE ParseLines(_, _, _, _)
\* the loop of VcsIgnore::new over the lines from index i on
ParseLines(parent, lines, i, acc) ==
    IF i > Len(lines) THEN acc
    ELSE LET trimmed == Trim(lines[i])
             unslashed == IF StartsWithChar(trimmed, SEP) THEN Tail(trimmed) ELSE trimmed
         IN  IF StartsWithChar(trimmed, "#")
             THEN ParseLines(parent, lines, i + 1, acc)
             ELSE IF StartsWithChar(unslashed, "!")
             THEN ParseLines(parent, lines, i + 1,
                    [acc EXCEPT !.white = Append(@, glob2pat(parent, Tail(unslashed)))])
             ELSE LET unescaped ==
                        IF /\ Len(unslashed) >= 2
                           /\ unslashed[1] = "\\"
                           /\ unslashed[2] \in {"#", "!"}
                        THEN Tail(unslashed) ELSE unslashed
                  IN  ParseLines(parent, lines, i + 1,
                        [acc EXCEPT !.black = Append(@, glob2pat(parent, unescaped))])

\* VcsIgnore::default
VcsIgnoreDefault == [black |-> <<>>, white |-> <<>>]

\* VcsIgnore::new on the ignore file of the directory whose path is dir
VcsIgnoreNew(dir, lines) == ParseLines(dir, lines, 1, VcsIgnoreDefault)

\* VcsIgnore::find: the entries of directory id named .gitignore
find(id) == {k \in 1..Len(fs.ent[id].kids) : fs.ent[fs.ent[id].kids[k]].name = GITIGNORE}

\* VcsIgnore::in_dir_or_default; a directory that cannot be searched has no
\* visible ignore file
in_dir_or_default(obj, id) ==
    IF find(id) = {} \/ ~fs.ent[id].readable THEN VcsIgnoreDefault
    ELSE VcsIgnoreNew(obj, fs.ent[fs.ent[id].kids[CHOOSE k \in find(id) : TRUE]].lines)

\* the directory's own rules without the inherited ones
compose_own_only(self, other_black, other_white) ==
    [black |-> self.black, white |-> self.white]

\* VcsIgnore::compose
compose(self, other_black, other_white) ==
    [black |-> self.black \o other_black, white |-> self.white \o other_white]

(***************************************************************************)
(* Dir::from                                                               *)
(***************************************************************************)
Node(path, ftype, target, contents) ==
    [path |-> path, ftype |-> ftype, target |-> target, contents |-> contents]

\* lines 123-132: the pattern is the path with its file name replaced by ".*"
HiddenTest(obj) ==
    /\ ~cfg.show_hidden
    /\ Matches(PatternNew(SetFileName(obj, <<".", "*">>), 1), obj)

\* the loop without the look-up in the reinclude list
ExclusionLoopNoReinclude(pats, i, white, obj) ==
    \E j \in i..Len(pats) : Matches(pats[j], obj)

RECURSIVE ExclusionLoop(_, _, _, _)
\* lines 134-148: the loop over negative_patterns chained with the blacklist
ExclusionLoop(pats, i, white, obj) ==
    IF i > Len(pats) THEN FALSE
    ELSE IF Matches(pats[i], obj) /\ ~AnyMatch(white, obj) THEN TRUE
    ELSE ExclusionLoop(pats, i + 1, white, obj)

ExclusionTest(obj, c) ==
    ExclusionLoop(cfg.negative_patterns \o c.black, 1, c.white, obj)

\* lines 150-152: Ok(bool) for a link, Err otherwise
link_contents(obj, id) ==
    IF fs.ent[id].kind = "link"
    THEN [ok |-> TRUE,
          val |-> StartsWith(IF fs.ent[id].canon # <<>> THEN fs.ent[id].canon
                             ELSE fs.ent[id].target, obj)]
    ELSE [ok |-> FALSE, val |-> FALSE]

\* lines 153-154
should_follow_link(obj, id) ==
    /\ cfg.follow_symlinks
    /\ (~cfg.stay_on_fs \/ (link_contents(obj, id).ok /\ link_contents(obj, id).val))

\* the budget handed on without the decrement
DepthStepNoDecrement(max_depth) ==
    IF max_depth = 0 THEN [should_recur |-> FALSE, max_depth |-> None]
    ELSE [should_recur |-> TRUE, max_depth |-> max_depth]

\* lines 156-160: (should_recur, max_depth)
DepthStep(max_depth) ==
    IF max_depth = 0 THEN [should_recur |-> FALSE, max_depth |-> None]
    ELSE IF max_depth # None THEN [should_recur |-> TRUE, max_depth |-> max_depth - 1]
    ELSE [should_recur |-> TRUE, max_depth |-> None]

\* the admission test without the case of an empty pattern list
should_stay_match_only(obj) == AnyMatch(cfg.positive_patterns, obj)

\* lines 204-211
should_stay(obj) ==
    cfg.positive_patterns = <<>> \/ AnyMatch(cfg.positive_patterns, obj)

\* FType::is_exec (unix): "panic" when metadata() fails on a dangling link
is_exec(id) ==
    IF IsDir(id) THEN "Dir"
    ELSE IF Resolve(id) = "noent" THEN "panic"
    ELSE IF fs.ent[Resolve(id)].kind = "exe" THEN "Exe"
    ELSE "File"

\* stat of the path of entry id fails with ELOOP: the directory that lists
\* it is reached through c.links symbolic links and the entry is one more
TooManyLinks(id, c) == fs.ent[id].kind = "link" /\ c.links + 1 > MaxSymlinks

\* One call of Dir::from on path obj (entry id) with the per-call options c
\* (max_depth, the two inherited ignore lists, and the number of symbolic
\* links on the way to obj's directory), up to the point where it
\* returns or starts to list the directory.  stage names the return point.
From(obj, id, c) ==
    LET step == DepthStep(c.max_depth)
        ignore_list ==
            compose(IF cfg.use_gitignores THEN in_dir_or_default(obj, Resolve(id))
                    ELSE VcsIgnoreDefault,
                    c.black, c.white)
    IN  IF HiddenTest(obj) THEN [stage |-> "hidden", node |-> NoTree]
        ELSE IF ExclusionTest(obj, c) THEN [stage |-> "excluded", node |-> NoTree]
        ELSE IF IsDir(id) /\ ~TooManyLinks(id, c) /\ step.should_recur
        THEN IF should_follow_link(obj, id) \/ ~link_contents(obj, id).ok
             THEN IF ~fs.ent[Resolve(id)].readable
                  THEN [stage |-> "panic", node |-> NoTree]
                  ELSE [stage |-> "dir", node |-> NoTree,
                        frame |-> [obj |-> obj, id |-> Resolve(id),
                                   max_depth |-> step.max_depth,
                                   black |-> ignore_list.black,
                                   white |-> ignore_list.white,
                                   links |-> IF fs.ent[id].kind = "link"
                                             THEN c.links + 1 ELSE c.links,
                                   pending |-> fs.ent[Resolve(id)].kids,
                                   contents |-> <<>>]]
             ELSE [stage |-> "link", node |-> Node(obj, "Link", fs.ent[id].target, <<>>)]
        ELSE IF should_stay(obj)
        THEN IF TooManyLinks(id, c) \/ is_exec(id) = "panic"
             THEN [stage |-> "panic", node |-> NoTree]
             ELSE [stage |-> "leaf", node |-> Node(obj, is_exec(id), <<>>, <<>>)]
        ELSE [stage |-> "nomatch", node |-> NoTree]

\* what is remembered of a call: its arguments and where it returned
CallRec(obj, id, level, c, out) ==
    [obj |-> obj, id |-> id, level |-> level, max_depth |-> c.max_depth,
     black |-> c.black, white |-> c.white, stage |-> out.stage,
     ftype |-> IF out.stage = "dir" THEN "Dir" ELSE out.node.ftype]

(***************************************************************************)
(* Dir::has_nested_children and Dir::prune                                 *)
(***************************************************************************)
\* the content predicate without the recursion into the children
has_children_only(t) == t.ftype = "Dir" => t.contents # <<>>

RECURSIVE has_nested_children(_)
has_nested_children(t) ==
    IF t.ftype = "Dir"
    THEN /\ t.contents # <<>>
         /\ \E i \in 1..Len(t.contents) : has_nested_children(t.contents[i])
    ELSE TRUE

RECURSIVE FilterNested(_)
\* .into_iter().filter(Self::has_nested_children).collect()
FilterNested(s) ==
    IF s = <<>> THEN <<>>
    ELSE IF has_nested_children(Head(s)) THEN <<Head(s)>> \o FilterNested(Tail(s))
    ELSE FilterNested(Tail(s))

\* the filter without the recursion into the retained children
prune_top_level_only(t) == [t EXCEPT !.contents = FilterNested(t.contents)]

RECURSIVE prune(_)
\* filter the children on the un-pruned subtrees, then prune the retained ones
prune(t) ==
    LET contents == FilterNested(t.contents)
    IN  [t EXCEPT !.contents = [i \in 1..Len(contents) |-> prune(contents[i])]]

(***************************************************************************)
(* The command line: SearchOpts as main builds it                          *)
(***************************************************************************)
\* pattern_ify: each -P / -I argument s becomes the pattern "**/s"
pattern_ify(v) == [i \in 1..Len(v) |-> PatternNew(<<"*", "*", "/">> \o v[i], 1)]

KeepArgs == {<<>>, << <<"*", ".", "t", "x", "t">> >>}
IgnoreArgs == {<<>>, << <<"b", ".", "l", "o", "g">> >>}

Configs ==
    [dirs_only : BOOLEAN, follow_symlinks : BOOLEAN, show_hidden : BOOLEAN,
     stay_on_fs : BOOLEAN, use_gitignores : BOOLEAN,
     max_depth : {None} \cup (0..MaxDepthOpt),
     positive_patterns : {pattern_ify(v) : v \in KeepArgs},
     negative_patterns : {pattern_ify(v) : v \in IgnoreArgs}]

(***************************************************************************)
(* The scan as a state machine.  stack holds one frame per directory that  *)
(* is being listed (the recursion of Dir::from), innermost last.           *)
(***************************************************************************)
Init ==
    /\ fs \in FileSystems
    /\ cfg \in Configs
    /\ pc = "start"
    /\ stack = <<>>
    /\ calls = {}
    /\ tree = NoTree
    /\ orig = NoTree
    /\ pruned = FALSE

\* main.rs line 158: Dir::from(dir, search_opts), the inherited lists empty
Main ==
    /\ pc = "start"
    /\ LET c == [max_depth |-> cfg.max_depth, black |-> <<>>, white |-> <<>>,
                 links |-> 0]
           out == From(fs.rootpath, "root", c)
       IN  /\ calls' = calls \cup {CallRec(fs.rootpath, "root", 0, c, out)}
           /\ IF out.stage = "dir"
              THEN /\ stack' = <<out.frame>>
                   /\ pc' = "walk"
                   /\ UNCHANGED <<tree, orig>>
              ELSE /\ stack' = <<>>
                   /\ pc' = IF out.stage = "panic" THEN "panic"
                            ELSE IF out.node = NoTree THEN "nomatch"
                            ELSE "built"
                   /\ tree' = out.node
                   /\ orig' = out.node
    /\ UNCHANGED <<fs, cfg, pruned>>

\* lines 171-186: the next entry of the innermost listing goes through the
\* dirs_only filter and then through the recursive call
Visit ==
    /\ pc = "walk"
    /\ stack[Len(stack)].pending # <<>>
    /\ LET n == Len(stack)
           f == stack[n]
           id == Head(f.pending)
           obj == Push(f.obj, fs.ent[id].name)
           c == [max_depth |-> f.max_depth, black |-> f.black, white |-> f.white,
                 links |-> f.links]
           out == From(obj, id, c)
           rest == [stack EXCEPT ![n].pending = Tail(@)]
       IN  IF cfg.dirs_only /\ fs.ent[id].kind # "dir"
           THEN /\ stack' = rest
                /\ UNCHANGED <<calls, pc>>
           ELSE /\ calls' = calls \cup {CallRec(obj, id, n, c, out)}
                /\ pc' = IF out.stage = "panic" THEN "panic" ELSE "walk"
                /\ stack' =
                     IF out.stage = "dir" THEN Append(rest, out.frame)
                     ELSE IF out.stage \in {"link", "leaf"}
                     THEN [rest EXCEPT ![n].contents = Append(@, out.node)]
                     ELSE rest
    /\ UNCHANGED <<fs, cfg, tree, orig, pruned>>

\* lines 186-194: the listing is exhausted, the Directory node is returned
Return ==
    /\ pc = "walk"
    /\ stack[Len(stack)].pending = <<>>
    /\ LET n == Len(stack)
           node == Node(stack[n].obj, "Dir", <<>>, stack[n].contents)
       IN  IF n = 1
           THEN /\ stack' = <<>>
                /\ pc' = "built"
                /\ tree' = node
                /\ orig' = node
           ELSE /\ stack' = [SubSeq(stack, 1, n - 1) EXCEPT ![n - 1].contents = Append(@, node)]
                /\ UNCHANGED <<pc, tree, orig>>
    /\ UNCHANGED <<fs, cfg, calls, pruned>>

\* main.rs line 175: tree.prune()
Prune ==
    /\ pc = "built"
    /\ tree' = prune(tree)
    /\ pruned' = TRUE
    /\ UNCHANGED <<fs, cfg, pc, stack, calls, orig>>

Next == Main \/ Visit \/ Return \/ Prune

Spec == Init /\ [][Next]_vars

(***************************************************************************)
(* Dir::prune on its own: every tree of bounded depth and width            *)
(***************************************************************************)
RECURSIVE Shapes(_)
\* trees without paths: a file, a link, or a directory of up to MaxTreeWidth
\* children; only directories have children
Shapes(d) ==
    {Node(<<>>, "File", <<>>, <<>>), Node(<<>>, "Link", <<"t">>, <<>>),
     Node(<<>>, "Dir", <<>>, <<>>)}
    \cup (IF d = 0 THEN {}
          ELSE {Node(<<>>, "Dir", <<>>, cs) :
                    cs \in UNION {[1..k -> Shapes(d - 1)] : k \in 1..MaxTreeWidth}})

RECURSIVE Label(_, _)
\* the i-th child of a directory is named by i letters
Label(t, path) ==
    [t EXCEPT !.path = path,
              !.contents = [i \in 1..Len(t.contents) |->
                                Label(t.contents[i], Push(path, [j \in 1..i |-> "a"]))]]

Trees == {Label(t, <<"r">>) : t \in Shapes(MaxTreeDepth)}

InitPrune ==
    /\ fs = FsBase
    /\ cfg \in {c \in Configs : c.max_depth = None /\ c.show_hidden /\ c.use_gitignores
                                /\ ~c.dirs_only /\ ~c.follow_symlinks /\ ~c.stay_on_fs
                                /\ c.positive_patterns = <<>> /\ c.negative_patterns = <<>>}
    /\ pc = "built"
    /\ stack = <<>>
    /\ calls = {}
    /\ tree \in Trees
    /\ orig = tree
    /\ pruned = FALSE

NextPrune == Prune

SpecPrune == InitPrune /\ [][NextPrune]_vars

(***************************************************************************)
(* Helpers of the properties                                               *)
(***************************************************************************)
Range(s) == {s[i] : i \in 1..Len(s)}

RECURSIVE NodesAt(_, _)
\* the nodes of a tree, each with its depth below the root (root at k)
NodesAt(t, k) ==
    {[node |-> t, depth |-> k]}
    \cup UNION {NodesAt(t.contents[i], k + 1) : i \in 1..Len(t.contents)}

Nodes(t) == IF t = NoTree THEN {} ELSE {x.node : x \in NodesAt(t, 0)}

Paths(t) == {n.path : n \in Nodes(t)}

RECURSIVE Preorder(_)
\* the paths of a tree, parent before children, siblings in order
Preorder(t) ==
    LET sub[i \in 0..Len(t.contents)] ==
            IF i = 0 THEN <<>> ELSE sub[i - 1] \o Preorder(t.contents[i])
    IN  <<t.path>> \o sub[Len(t.contents)]

\* the final component of a path starts with a dot
DotName(p) == LastComp(p) # <<>> /\ LastComp(p)[1] = "."

(***************************************************************************)
(* Properties                                                              *)
(***************************************************************************)
ALog == <<"a", ".", "l", "o", "g">>
KeepLog == <<"k", "e", "e", "p", ".", "l", "o", "g">>

\* the rules *.log and !keep.log of the ignore file of obj's directory are
\* in effect for the call
LogRulesInEffect(c) ==
    /\ glob2pat(Parent(c.obj), StarLog) \in Range(c.black)
    /\ glob2pat(Parent(c.obj), KeepLog) \in Range(c.white)

\* C1: a call that passes the hidden-file test returns "excluded" at the
\* exclusion step iff its path matches some pattern of negative_patterns or
\* of the inherited exclude list and no pattern of the inherited reinclude
\* list, whatever the order of the lists; with *.log and !keep.log in effect
\* a.log is excluded and keep.log is not.
C1_ExclusionWholeSet ==
    \A c \in calls :
        /\ c.stage # "hidden" =>
              ((c.stage = "excluded") <=>
                  /\ \E p \in Range(cfg.negative_patterns) \cup Range(c.black) :
                        Matches(p, c.obj)
                  /\ \A w \in Range(c.white) : ~Matches(w, c.obj))
        /\ (LogRulesInEffect(c) /\ c.stage # "hidden") =>
              /\ LastComp(c.obj) = ALog => c.stage = "excluded"
              /\ LastComp(c.obj) = KeepLog => c.stage # "excluded"

\* a finished scan in which a.log was excluded by *.log and keep.log was
\* kept by !keep.log
C1_Witness ==
    /\ pc = "built"
    /\ \E c1, c2 \in calls :
        /\ LogRulesInEffect(c1) /\ LastComp(c1.obj) = ALog /\ c1.stage = "excluded"
        /\ LogRulesInEffect(c2) /\ LastComp(c2.obj) = KeepLog /\ c2.stage = "leaf"
        /\ c2.obj \in Paths(orig)
        /\ c1.obj \notin Paths(orig)

\* C2: with show_hidden false no dot-named entry is in the tree, with
\* show_hidden true the hidden-file test excludes nothing, and the root
\* call never returns "excluded" from the hidden-file test.
C2_HiddenRootExempt ==
    /\ ~cfg.show_hidden =>
          \A n \in Nodes(orig) : n.path # fs.rootpath => ~DotName(n.path)
    /\ cfg.show_hidden => \A c \in calls : c.stage # "hidden"
    /\ \A c \in calls : c.level = 0 => c.stage # "hidden"

\* C3: a directory called with max_depth = Some(0) that passes the hidden
\* and exclusion tests is returned as a Directory node without children,
\* whatever positive_patterns is.
C3_DepthExhaustedDirKept ==
    \A c \in calls :
        (c.max_depth = 0 /\ IsDir(c.id) /\ c.stage \notin {"hidden", "excluded"})
            => (c.stage = "leaf" /\ c.ftype = "Dir")

\* C4: with max_depth = Some(n) every node is at depth <= n, every node with
\* children at depth < n, every child call gets its parent's budget minus
\* one; with max_depth = None every call gets None.
C4_DepthInvariant ==
    /\ \A c \in calls : c.level > 0 =>
          \E p \in calls :
              /\ p.obj = Parent(c.obj)
              /\ p.stage = "dir"
              /\ p.level = c.level - 1
              /\ c.max_depth = IF p.max_depth = None THEN None ELSE p.max_depth - 1
    /\ cfg.max_depth # None =>
          /\ \A c \in calls : c.level <= cfg.max_depth
                              /\ c.max_depth = cfg.max_depth - c.level
          /\ \A x \in NodesAt(orig, 0) :
                /\ x.depth <= cfg.max_depth
                /\ x.node.contents # <<>> => x.depth < cfg.max_depth
    /\ cfg.max_depth = None => \A c \in calls : c.max_depth = None

\* a finished scan with max_depth = Some(1) whose tree has, at depth 1, a
\* directory without children although the directory on disk has entries
C4_Witness ==
    /\ pc = "built"
    /\ cfg.max_depth = 1
    /\ \E x \in NodesAt(orig, 0) :
          /\ x.depth = 1
          /\ x.node.ftype = "Dir"
          /\ x.node.contents = <<>>
          /\ \E c \in calls : c.obj = x.node.path /\ fs.ent[c.id].kids # <<>>
    /\ \E c \in calls : c.level = 1 /\ c.max_depth = 0

\* C5: a regular file or executable that passed the hidden and exclusion
\* tests is in the tree iff positive_patterns is empty or one of them
\* matches its path; an expanded directory is in the tree whatever
\* positive_patterns is, also when it ends up without children.
C5_PositiveSelectivity ==
    /\ \A c \in calls :
          (fs.ent[c.id].kind \in {"file", "exe"} /\ c.stage \notin {"hidden", "excluded"})
              => /\ c.stage \in {"leaf", "nomatch"}
                 /\ (c.stage = "leaf") <=>
                        \/ cfg.positive_patterns = <<>>
                        \/ \E p \in Range(cfg.positive_patterns) : Matches(p, c.obj)
    /\ pc = "built" =>
          \A c \in calls :
              /\ c.stage = "leaf" => c.obj \in Paths(orig)
              /\ c.stage = "nomatch" => c.obj \notin Paths(orig)
              /\ c.stage = "dir" =>
                    \E n \in Nodes(orig) : n.path = c.obj /\ n.ftype = "Dir"

\* a finished scan with a positive pattern that admitted one file, dropped
\* another, and kept an expanded directory that matches no positive
\* pattern and has no children left
C5_Witness ==
    /\ pc = "built"
    /\ cfg.positive_patterns # <<>>
    /\ \E c1, c2, c3 \in calls :
        /\ fs.ent[c1.id].kind \in {"file", "exe"} /\ c1.stage = "leaf"
        /\ fs.ent[c2.id].kind \in {"file", "exe"} /\ c2.stage = "nomatch"
        /\ c3.stage = "dir" /\ c3.level > 0
        /\ ~AnyMatch(cfg.positive_patterns, c3.obj)
        /\ fs.ent[c3.id].kids # <<>>
        /\ \E n \in Nodes(orig) : n.path = c3.obj /\ n.contents = <<>>

\* the rules parsed from the ignore file of the directory of call d
OwnRules(d) ==
    IF cfg.use_gitignores THEN in_dir_or_default(d.obj, Resolve(d.id))
    ELSE VcsIgnoreDefault

\* call c is made for an entry below the directory of call d
Below(c, d) == c.level > d.level /\ StartsWith(c.obj, d.obj)

\* C6: for every expanded directory D and every call made below it, the
\* exclude and reinclude lists of the call contain the lists in effect for
\* D and the rules of D's own ignore file, the lists are never shorter than
\* D's, and a path that matches an exclude rule of D or inherited by D is
\* excluded unless a reinclude rule in effect at the call matches it.
C6_CascadeMonotone ==
    \A d \in calls : d.stage = "dir" =>
        \A c \in calls : Below(c, d) =>
            /\ Range(d.black) \cup Range(OwnRules(d).black) \subseteq Range(c.black)
            /\ Range(d.white) \cup Range(OwnRules(d).white) \subseteq Range(c.white)
            /\ Len(c.black) >= Len(d.black) + Len(OwnRules(d).black)
            /\ Len(c.white) >= Len(d.white) + Len(OwnRules(d).white)
            /\ ((\E p \in Range(d.black) \cup Range(OwnRules(d).black) : Matches(p, c.obj))
                /\ ~AnyMatch(c.white, c.obj))
                    => c.stage \in {"hidden", "excluded"}

\* below a directory whose own ignore file re-includes b.log, c.log is
\* excluded by the *.log rule of the root's ignore file and b.log is kept
C6_Witness ==
    /\ cfg.use_gitignores
    /\ \E d0, d1, c, k \in calls :
        /\ d0.level = 0 /\ d0.stage = "dir" /\ OwnRules(d0).black # <<>>
        /\ d1.level = 1 /\ d1.stage = "dir" /\ OwnRules(d1).white # <<>>
        /\ Below(d1, d0) /\ Below(c, d1) /\ Below(k, d1)
        /\ \E p \in Range(OwnRules(d0).black) : Matches(p, c.obj) /\ Matches(p, k.obj)
        /\ c.stage = "excluded"
        /\ AnyMatch(OwnRules(d1).white, k.obj) /\ k.stage = "leaf"

\* a directory child that has entries but no non-directory descendant
HollowChild(t) ==
    \E i \in 1..Len(t.contents) :
        /\ t.contents[i].ftype = "Dir"
        /\ t.contents[i].contents # <<>>
        /\ \A n \in Nodes(t.contents[i]) : n.ftype = "Dir"

\* C7: once a tree has been pruned, pruning it again leaves it as it is.
C7_PruneIdempotent == pruned => prune(tree) = tree

\* a pruned tree that lost a directory which contained only empty directories
C7_Witness == pruned /\ tree # orig /\ HollowChild(orig)

\* C8: a scan never aborts on an entry that cannot be read.
C8_NeverAborts == pc # "panic"

RECURSIVE BottomUpPrune(_)
\* prune each child first, then filter the pruned children with the content
\* predicate
BottomUpPrune(t) ==
    LET pruned_kids == [i \in 1..Len(t.contents) |-> BottomUpPrune(t.contents[i])]
    IN  [t EXCEPT !.contents = FilterNested(pruned_kids)]

\* the node survives pruning of the tree rooted at root: it is the root, or
\* not a directory, or a directory with a non-directory descendant
Survives(n, root) ==
    \/ n.path = root.path
    \/ n.ftype # "Dir"
    \/ \E m \in Nodes(n) : m.ftype # "Dir"

RECURSIVE KeepPaths(_, _)
\* the subsequence of the paths s that are in the set keep
KeepPaths(s, keep) ==
    IF s = <<>> THEN <<>>
    ELSE IF Head(s) \in keep THEN <<Head(s)>> \o KeepPaths(Tail(s), keep)
    ELSE KeepPaths(Tail(s), keep)

\* root{src{main.ext}, build{}} in the naming of Trees
ScenarioTree ==
    Node(<<"r">>, "Dir", <<>>,
         << Node(<<"r", "/", "a">>, "Dir", <<>>,
                 << Node(<<"r", "/", "a", "/", "a">>, "File", <<>>, <<>>) >>),
            Node(<<"r", "/", "a", "a">>, "Dir", <<>>, <<>>) >>)

\* C9: the pruned tree is the bottom-up transform of the tree as built: a
\* node is present iff it is the root, a non-directory, or a directory with
\* a non-directory descendant, surviving nodes keep their order and their
\* own fields, and root{src{main.ext}, build{}} becomes root{src{main.ext}}.
C9_PruneIsBottomUp ==
    pruned =>
        /\ tree = BottomUpPrune(orig)
        /\ Preorder(tree) =
              KeepPaths(Preorder(orig), {n.path : n \in {m \in Nodes(orig) : Survives(m, orig)}})
        /\ \A n \in Nodes(tree) : \E m \in Nodes(orig) :
              m.path = n.path /\ m.ftype = n.ftype /\ m.target = n.target
        /\ orig = ScenarioTree =>
              tree = [ScenarioTree EXCEPT !.contents = <<ScenarioTree.contents[1]>>]

\* a pruned tree that lost a hollow directory and kept a directory with a
\* file in it next to it
C9_Witness ==
    /\ pruned
    /\ HollowChild(orig)
    /\ \E i \in 1..Len(orig.contents) :
          /\ orig.contents[i].ftype = "Dir"
          /\ \E n \in Nodes(orig.contents[i]) : n.ftype # "Dir"
    /\ Len(tree.contents) < Len(orig.contents)
    /\ tree.contents # <<>>

\* the follow decision of the call, lines 153-154
Followed(c) ==
    /\ cfg.follow_symlinks
    /\ (~cfg.stay_on_fs \/ link_contents(c.obj, c.id).val)

\* C10: a symbolic link that passes the hidden and exclusion tests and is
\* not followed is returned as a SymbolicLink node, whatever its target,
\* max_depth and positive_patterns are; a symbolic link is expanded only
\* when it is followed.
C10_UnfollowedLinkIsLinkLeaf ==
    \A c \in calls : fs.ent[c.id].kind = "link" =>
        /\ (c.stage \notin {"hidden", "excluded"} /\ ~Followed(c))
              => (c.stage = "link" /\ c.ftype = "Link")
        /\ c.stage = "dir" => Followed(c)

\* every directory can be listed and every link resolves: nothing in the
\* file system is unreadable by itself
AllReadable ==
    \A id \in DOMAIN fs.ent :
        /\ fs.ent[id].readable
        /\ fs.ent[id].kind = "link" => fs.ent[id].to # "noent"

\* C11: on a file system whose entries are all readable, also one in which a
\* symbolic link points to one of its own ancestors, Dir::from returns (a
\* tree or "excluded") and never aborts, for every setting of the options.
C11_CycleNeverAborts == AllReadable => pc # "panic"

====
